---- MODULE Spec2Model ----
(***************************************************************************)
(* Model of src/app.py, the Ozone Dynamics Explorer: the session's         *)
(* scenario list with its add/remove callbacks and input widgets, and the  *)
(* computation pass every script run performs (rate estimation,            *)
(* concentration simulation, summary rows, combined chart, figure and the  *)
(* two report encoders).                                                   *)
(*                                                                         *)
(* Numbers are fixed point.  ozone_rate, fill_hr, volume, ph, wq and       *)
(* sim_hr are held in tenths (5.0 g/h is 50), temp in whole degrees C.     *)
(* Factors of estimate_k are scaled by 1000 (wq by 10), k is held in       *)
(* units of 1e-7 per minute, times in units of 1/(NumSamples-1) minute so  *)
(* that every np.linspace sample is exact, concentrations in whole mg/L.   *)
(***************************************************************************)
EXTENDS Integers, Sequences, FiniteSets

\* ------------------------------------------------------------------ bounds
\* Longest scenario list explored (the Add button is not pressed beyond it).
MaxScenarios == 2
\* Number of widget edits explored in one session.
MaxEdits == 1
\* Samples per time axis (the code uses 500; see t_values).
NumSamples == 4

\* --------------------------------------------------------- small helpers
Max(a, b) == IF a >= b THEN a ELSE b

\* floor(a * b / 1000) without forming a * b
MulDiv1000(a, b) == (a \div 1000) * b + ((a % 1000) * b) \div 1000

RECURSIVE TwoTo(_)
TwoTo(n) == IF n = 0 THEN 1 ELSE 2 * TwoTo(n - 1)

\* 1000 * 2^(j/10) for j = 0..9, indexed from 1
Pow2Frac == <<1000, 1072, 1149, 1231, 1320, 1414, 1516, 1625, 1741, 1866>>

\* math.pow(2, e10 / 10), scaled by 1000.  Python raises OverflowError
\* ("math range error") when the result exceeds the double range, that is
\* for an exponent of 1024 or more; a result below 1e-3 is 0 at this scale.
math_pow2(e10) ==
  IF e10 >= 10240 THEN [raised |-> TRUE, value |-> 0]
  ELSE IF e10 >= 0
    THEN [raised |-> FALSE,
          value |-> Pow2Frac[(e10 % 10) + 1] * TwoTo(e10 \div 10)]
  ELSE IF -(e10 \div 10) > 20 THEN [raised |-> FALSE, value |-> 0]
  ELSE [raised |-> FALSE,
        value |-> Pow2Frac[(e10 % 10) + 1] \div TwoTo(-(e10 \div 10))]

RECURSIVE ExpInt(_)
\* 1000 * e^(-n) for a natural n
ExpInt(n) == IF n = 0 THEN 1000 ELSE (ExpInt(n - 1) * 368) \div 1000

\* math.exp(-x3 / 1000), scaled by 1000, for x3 >= 0: range reduction to
\* the integer part and a fourth-order series on the fraction.
math_exp_neg(x3) ==
  IF x3 >= 7000 THEN 0
  ELSE LET f  == x3 % 1000
           f2 == (f * f) \div 1000
           f3 == (f2 * f) \div 1000
           f4 == (f3 * f) \div 1000
           frac == 1000 - f + (f2 \div 2) - (f3 \div 6) + (f4 \div 24)
       IN  (frac * ExpInt(x3 \div 1000)) \div 1000

\* ---------------------------------------------------- Core Simulation Logic
\* base_k = 0.005, scaled by 1000
base_k == 5

\* estimate_k with the temperature term floored at 0 instead of 0.1
estimate_k_zero_floor(temp_c, ph, wq_factor) ==
  LET p == math_pow2(temp_c - 20)
      temp_factor == Max(0, p.value)
      ph_raw == IF ph > 70 THEN 1000 + Max(0, (ph - 70) * 25)
                           ELSE 1000 - (70 - ph) * 10
      ph_factor == Max(100, ph_raw)
      wq == Max(1, wq_factor)
  IN  IF p.raised THEN [raised |-> TRUE, k |-> 0]
      ELSE [raised |-> FALSE,
            k |-> ((base_k * temp_factor * ph_factor) \div 1000) * wq]

\* estimate_k(temp_c, ph, wq_factor): the returned k in units of 1e-7 per
\* minute, or the OverflowError math.pow raises.
estimate_k(temp_c, ph, wq_factor) ==
  LET p == math_pow2(temp_c - 20)
      temp_factor == Max(100, p.value)
      ph_raw == IF ph > 70 THEN 1000 + Max(0, (ph - 70) * 25)
                           ELSE 1000 - (70 - ph) * 10
      ph_factor == Max(100, ph_raw)
      wq == Max(1, wq_factor)
  IN  IF p.raised THEN [raised |-> TRUE, k |-> 0]
      ELSE [raised |-> FALSE,
            k |-> ((base_k * temp_factor * ph_factor) \div 1000) * wq]

\* R = (ozone_gph * 1000) / (volume_l * 60), scaled by 1e4
inj_rate(ozone_gph, volume_l) == (ozone_gph * 10000000) \div (volume_l * 60)

\* t_fill_end = fill_hr * 60 minutes, in time units
t_fill_end(fill_hr) == fill_hr * 6 * (NumSamples - 1)

\* k * t scaled by 1000, for k in 1e-7 per minute and t in time units
k_times_t(k, t) == ((k \div 10) * t) \div (1000 * (NumSamples - 1))

\* (R / k) * (1 - math.exp(-k * t)) if k > 0 else R * t
injection_conc(R, k, t) ==
  IF k > 0
    THEN MulDiv1000((R * 1000) \div k, 1000 - math_exp_neg(k_times_t(k, t)))
    ELSE (R * t) \div (10000 * (NumSamples - 1))

\* c_peak by the k = 0 expression R * t_fill_end whatever k is
c_peak_linear(R, k, fill_hr) ==
  (R * t_fill_end(fill_hr)) \div (10000 * (NumSamples - 1))

\* c_peak, line 31
c_peak(R, k, fill_hr) == injection_conc(R, k, t_fill_end(fill_hr))

\* c_peak * math.exp(-k * time_after_fill) if k > 0 else c_peak
decay_conc(cpeak, k, time_after_fill) ==
  IF k > 0
    THEN MulDiv1000(cpeak, math_exp_neg(k_times_t(k, time_after_fill)))
    ELSE cpeak

\* the branch line 35 selects for one sample
phase(t_min, fill_hr) ==
  IF t_min <= t_fill_end(fill_hr) THEN "injection" ELSE "decay"

\* one iteration of the loop of simulate_ozone, lines 34-40, with the R and
\* c_peak computed before the loop
current_conc(t_min, R, k, fill_hr, peak) ==
  Max(0, IF phase(t_min, fill_hr) = "injection"
           THEN injection_conc(R, k, t_min)
           ELSE decay_conc(peak, k, t_min - t_fill_end(fill_hr)))

simulate_ozone(t_array, ozone_gph, volume_l, k, fill_hr) ==
  LET R == inj_rate(ozone_gph, volume_l)
      peak == c_peak(R, k, fill_hr)
  IN  [j \in 1..Len(t_array) |-> current_conc(t_array[j], R, k, fill_hr, peak)]

\* ------------------------------------------------------- State Management
\* The scenario's name: the number n stands for the string "Scenario n".
defaults ==
  << [ozone_rate |-> 50, fill_hr |-> 10, volume |-> 2000, temp |-> 25,
      ph |-> 70, wq |-> 10, sim_hr |-> 60],
     [ozone_rate |-> 100, fill_hr |-> 5, volume |-> 2000, temp |-> 30,
      ph |-> 80, wq |-> 15, sim_hr |-> 60] >>

create_default_scenario(index) ==
  LET d == defaults[(index % Len(defaults)) + 1]
  IN  [name |-> index + 1, ozone_rate |-> d.ozone_rate, fill_hr |-> d.fill_hr,
       volume |-> d.volume, temp |-> d.temp, ph |-> d.ph, wq |-> d.wq,
       sim_hr |-> d.sim_hr]

add_scenario(scen) == Append(scen, create_default_scenario(Len(scen)))

NoToast == ""
LastScenarioToast == "Cannot remove the last scenario."

\* list.pop(index) for 0 <= index < len
pop(scen, index) ==
  [j \in 1..(Len(scen) - 1) |-> IF j <= index THEN scen[j] ELSE scen[j + 1]]

\* remove_scenario without the len > 1 test
remove_scenario_unguarded(scen, index) ==
  [scenarios |-> pop(scen, index), toast |-> NoToast]

\* remove_scenario without the st.toast of the else branch
remove_scenario_silent(scen, index) ==
  IF Len(scen) > 1
    THEN [scenarios |-> pop(scen, index), toast |-> NoToast]
    ELSE [scenarios |-> scen, toast |-> NoToast]

\* remove_scenario(index): the list afterwards and the toast shown, if any
remove_scenario(scen, index) ==
  IF Len(scen) > 1
    THEN [scenarios |-> pop(scen, index), toast |-> NoToast]
    ELSE [scenarios |-> scen, toast |-> LastScenarioToast]

\* ------------------------------------------------------------ input widgets
Fields == {"ozone_rate", "fill_hr", "volume", "temp", "ph", "wq", "sim_hr"}

\* min_value / max_value of each st.number_input, lines 135-141
widget_range(f) ==
  CASE f = "ozone_rate" -> [has_min |-> TRUE, min |-> 1, has_max |-> FALSE, max |-> 0]
    [] f = "fill_hr"    -> [has_min |-> TRUE, min |-> 1, has_max |-> FALSE, max |-> 0]
    [] f = "volume"     -> [has_min |-> TRUE, min |-> 10, has_max |-> FALSE, max |-> 0]
    [] f = "temp"       -> [has_min |-> FALSE, min |-> 0, has_max |-> FALSE, max |-> 0]
    [] f = "ph"         -> [has_min |-> TRUE, min |-> 0, has_max |-> TRUE, max |-> 140]
    [] f = "wq"         -> [has_min |-> TRUE, min |-> 1, has_max |-> FALSE, max |-> 0]
    [] f = "sim_hr"     -> [has_min |-> TRUE, min |-> 1, has_max |-> FALSE, max |-> 0]

\* st.number_input without min_value and max_value
number_input_unchecked(value, range, entered) ==
  IF entered.typed THEN entered.value ELSE value

\* st.number_input(value=..., min_value=..., max_value=...): the widget
\* returns value unless the user has committed another number, and it
\* accepts a committed number only within its range.  (Widget state kept
\* under the index-based keys "ozone_{i}", ... can also hand a scenario the
\* number committed for another one; that, too, is a number the widget
\* accepted, within the same range.)
number_input(value, range, entered) ==
  IF /\ entered.typed
     /\ range.has_min => entered.value >= range.min
     /\ range.has_max => entered.value <= range.max
    THEN entered.value
    ELSE value

\* What the user does to the widgets before a run: nothing, or one number
\* committed into field f of scenario i (0-based, as in the widget keys).
NoEdit == [i |-> -1, f |-> "", value |-> 0]

entered_in(ev, i, f) ==
  [typed |-> (ev.i = i /\ ev.f = f), value |-> ev.value]

\* The sidebar loop, lines 133-142: every field of every scenario is
\* assigned what its widget returns.
sidebar(scen, ev) ==
  [j \in 1..Len(scen) |->
     [f \in DOMAIN scen[j] |->
        IF f \in Fields
          THEN number_input(scen[j][f], widget_range(f), entered_in(ev, j - 1, f))
          ELSE scen[j][f]]]

\* The numbers a user is taken to type, valid and invalid ones.
TypedValues(f) ==
  CASE f = "ozone_rate" -> {0, 1, 100}
    [] f = "fill_hr"    -> {0, 20, 60}
    [] f = "volume"     -> {9, 10, 1000}
    [] f = "temp"       -> {-300, 10260}
    [] f = "ph"         -> {-1, 0, 140, 141}
    [] f = "wq"         -> {0, 1, 20}
    [] f = "sim_hr"     -> {0, 10}

\* ------------------------------------------- Process Data and Display Outputs
\* np.linspace(0, s['sim_hr'] * 60, NumSamples), in time units
t_values(sim_hr) == [j \in 1..NumSamples |-> (j - 1) * sim_hr * 6]

\* math.log(2), scaled by 1e9
Ln2 == 693147000

\* round(math.log(2) / k, 2) if k > 0 else "inf", in hundredths of a minute
half_life(k) ==
  IF k > 0 THEN [inf |-> FALSE, value |-> (2 * Ln2 + k) \div (2 * k)]
           ELSE [inf |-> TRUE, value |-> 0]

\* f"{k:.4f}": k rounded to 4 decimals, in units of 1e-4
format_k(k) == (k + 500) \div 1000

\* the dict appended to table_data_list, line 152
summary_row(s, k) ==
  [Scenario |-> s.name, ozone_rate |-> s.ozone_rate, fill_hr |-> s.fill_hr,
   volume |-> s.volume, temp |-> s.temp, ph |-> s.ph, wq |-> s.wq,
   k |-> format_k(k), half_life |-> half_life(k)]

\* the frame appended to chart_data_list, line 153
chart_frame(s, k) ==
  [name |-> s.name, t_values |-> t_values(s.sim_hr),
   c_values |-> simulate_ozone(t_values(s.sim_hr), s.ozone_rate, s.volume,
                               k, s.fill_hr)]

EmptyLoop == [raised |-> FALSE, handed |-> <<>>, table |-> <<>>, chart |-> <<>>]

RECURSIVE scenario_loop_by_name(_, _, _)
\* the loop keeping one row and one frame per scenario name
scenario_loop_by_name(scen, i, acc) ==
  IF i > Len(scen) THEN acc
  ELSE LET s == scen[i]
           e == estimate_k(s.temp, s.ph, s.wq)
           seen == Append(acc.handed, [s |-> s, est |-> e])
           known == \E r \in 1..Len(acc.table) : acc.table[r].Scenario = s.name
       IN  IF e.raised
             THEN [acc EXCEPT !.raised = TRUE, !.handed = seen]
             ELSE scenario_loop_by_name(scen, i + 1,
                    [raised |-> FALSE, handed |-> seen,
                     table |-> IF known THEN acc.table
                               ELSE Append(acc.table, summary_row(s, e.k)),
                     chart |-> IF known THEN acc.chart
                               ELSE Append(acc.chart, chart_frame(s, e.k))])

RECURSIVE scenario_loop(_, _, _)
\* The loop of lines 148-153 from scenario i on; an exception of estimate_k
\* ends the run with the lists as far as they were built.
scenario_loop(scen, i, acc) ==
  IF i > Len(scen) THEN acc
  ELSE LET s == scen[i]
           e == estimate_k(s.temp, s.ph, s.wq)
           seen == Append(acc.handed, [s |-> s, est |-> e])
       IN  IF e.raised
             THEN [acc EXCEPT !.raised = TRUE, !.handed = seen]
             ELSE scenario_loop(scen, i + 1,
                    [raised |-> FALSE, handed |-> seen,
                     table |-> Append(acc.table, summary_row(s, e.k)),
                     chart |-> Append(acc.chart, chart_frame(s, e.k))])

\* the marker of a missing value in a frame
NaN == -1

\* pd.concat(chart_data_list, axis=1): the frames side by side on the union
\* of their indexes, one column per frame in list order (equal names
\* included), NaN where a frame has no sample.  The index is held as the
\* set of its times and each column as a function on it.
pd_concat(frames) ==
  LET index == UNION {{frames[c].t_values[p] : p \in 1..Len(frames[c].t_values)}
                        : c \in 1..Len(frames)}
      at(fr, t) == IF \E p \in 1..Len(fr.t_values) : fr.t_values[p] = t
                     THEN LET p == CHOOSE q \in 1..Len(fr.t_values) :
                                     fr.t_values[q] = t
                          IN  fr.c_values[p]
                     ELSE NaN
  IN  [index |-> index,
       columns |-> [c \in 1..Len(frames) |->
                      [name |-> frames[c].name,
                       values |-> [t \in index |-> at(frames[c], t)]]]]

RECURSIVE select_columns(_, _, _)
\* combined_chart_df[col]: every column carrying the label col, in order
select_columns(df, col, c) ==
  IF c > Len(df.columns) THEN <<>>
  ELSE (IF df.columns[c].name = col THEN <<df.columns[c]>> ELSE <<>>)
       \o select_columns(df, col, c + 1)

\* ax.plot(index, combined_chart_df[col], label=col): one line per column
\* of the selection, each labelled col
ax_plot(df, col) ==
  LET sel == select_columns(df, col, 1)
  IN  [d \in 1..Len(sel) |-> [label |-> col, ydata |-> sel[d].values]]

RECURSIVE plot_all(_, _)
\* the loop of lines 167-168 from column c on: the lines of the axes
plot_all(df, c) ==
  IF c > Len(df.columns) THEN <<>>
  ELSE ax_plot(df, df.columns[c].name) \o plot_all(df, c + 1)

\* --------------------------------------------------------- Report Generation
\* fig.savefig(img_buffer, format="png", dpi=...): the image of the
\* figure's lines at a resolution
savefig(fig, dpi) == [lines |-> fig, dpi |-> dpi]

\* generate_pdf_report writing only the first row of the table
generate_pdf_report_first_row(fig, table_df) ==
  [img |-> savefig(fig, "300"), table |-> SubSeq(table_df, 1, 1)]

\* generate_pdf_report: the image drawn at (10, 30) and the table's rows
generate_pdf_report(fig, table_df) ==
  [img |-> savefig(fig, "300"), table |-> table_df]

\* generate_html_report: the inline image and the table's rows
generate_html_report(fig, table_df) ==
  [img |-> savefig(fig, "figure"), table |-> table_df]

NoFrame == [index |-> {}, columns |-> <<>>]
NoReport == [img |-> savefig(<<>>, ""), table |-> <<>>]

\* One run of the script below the sidebar, lines 145-183.
run_pass(scen) ==
  LET loop == scenario_loop(scen, 1, EmptyLoop)
      df   == pd_concat(loop.chart)
      fig  == plot_all(df, 1)
  IN  IF loop.raised
        THEN [status |-> "OverflowError", handed |-> loop.handed,
              table_data_list |-> loop.table, chart_data_list |-> loop.chart,
              combined_chart_df |-> NoFrame, fig |-> <<>>,
              html_content |-> NoReport, pdf_content |-> NoReport]
        ELSE [status |-> "done", handed |-> loop.handed,
              table_data_list |-> loop.table, chart_data_list |-> loop.chart,
              combined_chart_df |-> df, fig |-> fig,
              html_content |-> generate_html_report(fig, loop.table),
              pdf_content |-> generate_pdf_report(fig, loop.table)]

\* -------------------------------------------------------------- the session
VARIABLES
  scenarios,     \* st.session_state.scenarios
  toast,         \* the st.toast of the latest run, NoToast if none
  last_op,       \* what started the latest run: "start", "add", "remove", "edit"
  edits,         \* widget edits so far
  pass,          \* what the latest run computed: run_pass
  core           \* a direct call of the core functions: inputs and results

vars == <<scenarios, toast, last_op, edits, pass, core>>
session_vars == <<scenarios, toast, last_op, edits, pass>>

CoreIdle == [stage |-> "idle"]

\* The first run of a session: lines 49-50, the sidebar, the pass.
Init ==
  /\ scenarios = sidebar(<<create_default_scenario(0)>>, NoEdit)
  /\ toast = NoToast
  /\ last_op = "start"
  /\ edits = 0
  /\ pass = run_pass(scenarios)
  /\ core = CoreIdle

\* "Add Scenario" pressed: the callback, then the script runs again.
AddScenario ==
  /\ Len(scenarios) < MaxScenarios
  /\ scenarios' = sidebar(add_scenario(scenarios), NoEdit)
  /\ toast' = NoToast
  /\ last_op' = "add"
  /\ edits' = edits
  /\ pass' = run_pass(scenarios')
  /\ UNCHANGED core

\* "Remove" of scenario index pressed: the callback, then the script runs again.
RemoveScenario ==
  \E index \in 0..(Len(scenarios) - 1) :
     LET r == remove_scenario(scenarios, index)
     IN  /\ scenarios' = sidebar(r.scenarios, NoEdit)
         /\ toast' = r.toast
         /\ last_op' = "remove"
         /\ edits' = edits
         /\ pass' = run_pass(scenarios')
         /\ UNCHANGED core

\* A number committed into one widget: the script runs again.
EditField ==
  /\ edits < MaxEdits
  /\ \E i \in 0..(Len(scenarios) - 1), f \in Fields :
       \E v \in TypedValues(f) :
          /\ scenarios' = sidebar(scenarios, [i |-> i, f |-> f, value |-> v])
          /\ toast' = NoToast
          /\ last_op' = "edit"
          /\ edits' = edits + 1
          /\ pass' = run_pass(scenarios')
          /\ UNCHANGED core

Next == AddScenario \/ RemoveScenario \/ EditField

Spec == Init /\ [][Next]_vars

\* ------------------------------------------- the core functions on their own
\* estimate_k and simulate_ozone called directly, on inputs drawn from
\* grids that cover every branch and floor of the two functions.
CoreTemps == {-300, -14, -13, 0, 20, 25, 45, 10260}
CorePhs == {0, 35, 70, 71, 140}
CoreWqs == {1, 10, 20}
CoreOzone == {1, 50}
CoreVolume == {10, 2000}
CoreFill == {5, 10, 60}
\* distance of the samples around the end of filling, in time units
CoreStep == {1, 90}

\* samples before, at and after t_fill_end
core_t_array(fill_hr, d) ==
  <<0, t_fill_end(fill_hr) - d, t_fill_end(fill_hr), t_fill_end(fill_hr) + d>>

InitCore ==
  /\ scenarios = sidebar(<<create_default_scenario(0)>>, NoEdit)
  /\ toast = NoToast
  /\ last_op = "start"
  /\ edits = 0
  /\ pass = run_pass(scenarios)
  /\ \E temp \in CoreTemps, ph \in CorePhs, wq_a \in CoreWqs, wq_b \in CoreWqs,
        ozone \in CoreOzone, volume \in CoreVolume, fill \in CoreFill,
        d \in CoreStep :
        core = [stage |-> "input", temp |-> temp, ph |-> ph, wq_a |-> wq_a,
                wq_b |-> wq_b, ozone_rate |-> ozone, volume |-> volume,
                fill_hr |-> fill, t_array |-> core_t_array(fill, d)]

\* k = estimate_k(temp, ph, wq) for both water-quality factors
CoreEstimate ==
  /\ core.stage = "input"
  /\ core' = [stage |-> "estimated", temp |-> core.temp, ph |-> core.ph,
              wq_a |-> core.wq_a, wq_b |-> core.wq_b,
              ozone_rate |-> core.ozone_rate, volume |-> core.volume,
              fill_hr |-> core.fill_hr, t_array |-> core.t_array,
              est_a |-> estimate_k(core.temp, core.ph, core.wq_a),
              est_b |-> estimate_k(core.temp, core.ph, core.wq_b)]
  /\ UNCHANGED session_vars

\* c_values = simulate_ozone(t_array, ozone_rate, volume, k, fill_hr)
CoreSimulate ==
  /\ core.stage = "estimated"
  /\ ~core.est_a.raised
  /\ core' = [stage |-> "simulated", temp |-> core.temp, ph |-> core.ph,
              wq_a |-> core.wq_a, wq_b |-> core.wq_b,
              ozone_rate |-> core.ozone_rate, volume |-> core.volume,
              fill_hr |-> core.fill_hr, t_array |-> core.t_array,
              est_a |-> core.est_a, est_b |-> core.est_b,
              c_values |-> simulate_ozone(core.t_array, core.ozone_rate,
                                          core.volume, core.est_a.k,
                                          core.fill_hr)]
  /\ UNCHANGED session_vars

NextCore == CoreEstimate \/ CoreSimulate

SpecCore == InitCore /\ [][NextCore]_vars

\* ================================================================ properties
\* 0.005 * 0.1 * 0.1 * 0.1 in the units of k: every floor of estimate_k active
k_floor == ((base_k * 100 * 100) \div 1000) * 1

\* C1: removing the sole remaining scenario leaves the scenario list as it
\* was (same length, same element) and shows the rejection notice.
C1_RemoveSoleRejected ==
  [][(last_op' = "remove" /\ Len(scenarios) = 1)
       => (scenarios' = scenarios /\ toast' = LastScenarioToast)]_vars

\* a run started by Remove on a one-element list
C1_Witness ==
  /\ last_op = "remove"
  /\ toast = LastScenarioToast
  /\ Len(scenarios) = 1

\* C2: after any sequence of add_scenario and remove_scenario calls the
\* scenario list holds at least one scenario.
C2_AtLeastOneScenario == Len(scenarios) >= 1

\* a Remove that did remove, down to one scenario
C2_Witness ==
  /\ last_op = "remove"
  /\ toast = NoToast
  /\ Len(scenarios) = 1

\* C3: no two scenarios of the list carry the same name.
C3_NamesUnique ==
  \A i, j \in 1..Len(scenarios) :
     i # j => scenarios[i].name # scenarios[j].name

C6_OnlyValidInputs ==
  \A h \in 1..Len(pass.handed) :
     LET s == pass.handed[h].s
     IN  /\ s.ozone_rate > 0
         /\ s.fill_hr > 0
         /\ s.volume > 0
         /\ s.wq > 0
         /\ s.sim_hr > 0
         /\ 0 <= s.ph /\ s.ph <= 140

\* an edit the widget refused (the scenario still has its defaults), and
\* the pass ran on the list
C6_Witness ==
  /\ last_op = "edit"
  /\ scenarios = <<create_default_scenario(0)>>
  /\ Len(pass.handed) = 1

\* C7: the figure holds exactly one line per scenario of the list, each
\* labelled with that scenario's name, also when two scenarios share a name.
C7_OneLinePerScenario ==
  pass.status = "done" =>
    /\ Len(pass.fig) = Len(scenarios)
    /\ \A i \in 1..Len(scenarios) : pass.fig[i].label = scenarios[i].name

\* C8: for k > 0 a sample at t = t_fill_end takes the injection branch and
\* its value is c_peak, which is the decay formula's value at zero elapsed
\* decay time.
C8_BoundaryContinuity ==
  (core.stage = "simulated" /\ core.est_a.k > 0) =>
    \A j \in 1..Len(core.t_array) :
       core.t_array[j] = t_fill_end(core.fill_hr) =>
         LET R == inj_rate(core.ozone_rate, core.volume)
             k == core.est_a.k
             peak == c_peak(R, k, core.fill_hr)
         IN  /\ phase(core.t_array[j], core.fill_hr) = "injection"
             /\ core.c_values[j] = peak
             /\ decay_conc(peak, k, 0) = peak

\* a simulation with a sample at the end of filling, a positive peak there
\* and a smaller value one step later
C8_Witness ==
  /\ core.stage = "simulated"
  /\ core.est_a.k > 0
  /\ \E j \in 1..(Len(core.t_array) - 1) :
        /\ core.t_array[j] = t_fill_end(core.fill_hr)
        /\ core.c_values[j] > 0
        /\ core.c_values[j + 1] < core.c_values[j]

C10_RatePositive ==
  /\ \A h \in 1..Len(pass.handed) :
        ~pass.handed[h].est.raised => pass.handed[h].est.k > 0
  /\ \A r \in 1..Len(pass.table_data_list) :
        /\ ~pass.table_data_list[r].half_life.inf
        /\ pass.table_data_list[r].half_life.value >= 0

\* a pass over a scenario whose temperature puts the temperature floor to
\* work, its row built
C10_Witness ==
  /\ pass.status = "done"
  /\ \E r \in 1..Len(pass.table_data_list) :
        /\ pass.table_data_list[r].temp = -300
        /\ ~pass.table_data_list[r].half_life.inf

====
